---------------------------- MODULE Spec2Model ----------------------------
(***************************************************************************)
(* Model of the scene-graph code of dot_vox (src/src/scene.rs): the        *)
(* Transform algebra (Transform::default, Transform::apply), the decoding  *)
(* of a frame dictionary (Transform::from_dict, with the packed rotation   *)
(* byte), the scene graph store (SceneGraph::add_node) and its collapse    *)
(* (SceneGraph::collapse_to_vec, SceneGraph::collapse_transform).          *)
(*                                                                         *)
(* Conventions.  A Rust Option is a sequence of length at most one: <<>>   *)
(* is None and <<v>> is Some(v).  A Rust str is a sequence of one-character *)
(* strings.  Arrays are 1-based tuples, so the Rust index k is k + 1 here. *)
(* A panic (index out of bounds) and a stack overflow are outcomes of      *)
(* their own, never a value.                                               *)
(***************************************************************************)
EXTENDS Integers, Sequences, FiniteSets, TLC

VARIABLES
    dict,       \* the frame dictionary handed to Transform::from_dict
    parsed,     \* Option: the outcome of Transform::from_dict(dict)
    ta, tb, tc, \* the operands of Transform::apply
    composed,   \* Option: the transforms computed from ta, tb, tc
    graph,      \* SceneGraph.0: the HashMap from node id to NodeKind
    scene       \* Option: the outcome of SceneGraph::collapse_to_vec

vars == <<dict, parsed, ta, tb, tc, composed, graph, scene>>

None == <<>>
Some(v) == <<v>>

(***************************************************************************)
(* Integer widths                                                          *)
(***************************************************************************)
I8Min == -128
I8Max == 127
U8Max == 255
I32Max == 2147483647
I32Min == -I32Max - 1

\* Two's-complement wrapping of an arithmetic result to i8.
wrap_i8(x) == ((x - I8Min) % (I8Max - I8Min + 1)) + I8Min

\* i32 arithmetic.  TLC's own integers are 32 bits wide and it stops with an
\* error on overflow, so an i32 result is the integer itself: a run that
\* ends without such an error has met no i32 overflow.
wrap_i32(x) == x

(***************************************************************************)
(* Bit operations on u8                                                    *)
(***************************************************************************)
RECURSIVE bit_or(_, _)
bit_or(x, y) ==
    IF x = 0 /\ y = 0 THEN 0
    ELSE (IF x % 2 = 1 \/ y % 2 = 1 THEN 1 ELSE 0) + 2 * bit_or(x \div 2, y \div 2)

RECURSIVE bit_and(_, _)
bit_and(x, y) ==
    IF x = 0 \/ y = 0 THEN 0
    ELSE (IF x % 2 = 1 /\ y % 2 = 1 THEN 1 ELSE 0) + 2 * bit_and(x \div 2, y \div 2)

bit_not(x) == U8Max - x

RECURSIVE shr(_, _)
shr(x, k) == IF k = 0 THEN x ELSE shr(x \div 2, k - 1)

(***************************************************************************)
(* Transform algebra                                                       *)
(***************************************************************************)
Identity3 == <<<<1, 0, 0>>, <<0, 1, 0>>, <<0, 0, 1>>>>

\* struct Transform { t: [i32; 3], r: [[i8; 3]; 3] }
MkTransform(t, r) == [t |-> t, r |-> r]

\* Transform::default()
default == MkTransform(<<0, 0, 0>>, Identity3)

dot_i32(v1, v2) ==
    wrap_i32(wrap_i32(wrap_i32(v1[1] * v2[1]) + wrap_i32(v1[2] * v2[2]))
             + wrap_i32(v1[3] * v2[3]))

dot_i8(v1, v2) ==
    wrap_i8(wrap_i8(wrap_i8(v1[1] * v2[1]) + wrap_i8(v1[2] * v2[2]))
            + wrap_i8(v1[3] * v2[3]))

add(v1, v2) ==
    <<wrap_i32(v1[1] + v2[1]), wrap_i32(v1[2] + v2[2]), wrap_i32(v1[3] + v2[3])>>

row_i32(m, r) == <<m[r][1], m[r][2], m[r][3]>>

col_i8(m, c) == <<m[1][c], m[2][c], m[3][c]>>

mul_mv_i32(m, v) ==
    <<dot_i32(row_i32(m, 1), v), dot_i32(row_i32(m, 2), v), dot_i32(row_i32(m, 3), v)>>

mul_vm_i8(v, m) ==
    <<dot_i8(v, col_i8(m, 1)), dot_i8(v, col_i8(m, 2)), dot_i8(v, col_i8(m, 3))>>

\* A plausible slip in apply: the rotation operands swapped (self.r * other.r).
apply_swapped_rotation(self, other) ==
    MkTransform(add(mul_mv_i32(other.r, self.t), other.t),
                <<mul_vm_i8(self.r[1], other.r),
                  mul_vm_i8(self.r[2], other.r),
                  mul_vm_i8(self.r[3], other.r)>>)

\* Transform::apply(self, other)
apply(self, other) ==
    MkTransform(add(mul_mv_i32(other.r, self.t), other.t),
                <<mul_vm_i8(other.r[1], self.r),
                  mul_vm_i8(other.r[2], self.r),
                  mul_vm_i8(other.r[3], self.r)>>)

(***************************************************************************)
(* Strings: str::split(' ') and str::parse                                 *)
(***************************************************************************)
DigitChars == <<"0", "1", "2", "3", "4", "5", "6", "7", "8", "9">>

IsDigit(c) == \E i \in 1..Len(DigitChars) : DigitChars[i] = c

DigitVal(c) == (CHOOSE i \in 1..Len(DigitChars) : DigitChars[i] = c) - 1

\* s.split(' '): the pieces between single spaces; "" splits into one empty piece.
RECURSIVE split(_)
split(s) ==
    IF \A i \in 1..Len(s) : s[i] # " " THEN <<s>>
    ELSE LET k == CHOOSE i \in 1..Len(s) : s[i] = " " /\ \A j \in 1..(i - 1) : s[j] # " "
         IN  <<SubSeq(s, 1, k - 1)>> \o split(SubSeq(s, k + 1, Len(s)))

\* The digit loop of from_str_radix: checked_mul by 10, then checked_add (or
\* checked_sub for a negative number); any non-digit or overflow is an Err.
RECURSIVE parse_digits(_, _, _, _, _)
parse_digits(digits, acc, sign, min, max) ==
    IF Len(digits) = 0 THEN Some(acc)
    ELSE IF ~IsDigit(Head(digits)) THEN None
    ELSE LET next == acc * 10 + sign * DigitVal(Head(digits))
         IN  IF acc * 10 < min \/ acc * 10 > max \/ next < min \/ next > max THEN None
             ELSE parse_digits(Tail(digits), next, sign, min, max)

\* <integer>::from_str: an optional '+', or '-' for a signed type, then at
\* least one digit.
from_str(src, is_signed, min, max) ==
    IF Len(src) = 0 THEN None
    ELSE LET body == IF src[1] = "+" \/ (src[1] = "-" /\ is_signed) THEN Tail(src) ELSE src
             sign == IF src[1] = "-" /\ is_signed THEN -1 ELSE 1
         IN  IF Len(body) = 0 THEN None ELSE parse_digits(body, 0, sign, min, max)

parse_i32(src) == from_str(src, TRUE, I32Min, I32Max)

parse_u8(src) == from_str(src, FALSE, 0, U8Max)

\* .map(str::parse::<i32>).filter_map(Result::ok).collect(): the pieces that
\* parse, in order; the pieces that do not parse are dropped.
RECURSIVE parsed_values(_)
parsed_values(pieces) ==
    IF Len(pieces) = 0 THEN <<>>
    ELSE parse_i32(Head(pieces)) \o parsed_values(Tail(pieces))

(***************************************************************************)
(* Transform::from_dict                                                    *)
(***************************************************************************)
\* dict.get(key)
get(d, key) == IF key \in DOMAIN d THEN Some(d[key]) ELSE None

DiagTranslation == "Unknown translation format"
DiagRotation == "Unknown rotation format"

\* A plausible slip: the malformed `_t` replaced by the default without the
\* debug! line.
translation_from_silent(d) ==
    LET got == get(d, "_t")
    IN  IF got = None THEN [t |-> <<0, 0, 0>>, diag |-> <<>>]
        ELSE LET values == parsed_values(split(got[1]))
             IN  IF Len(values) = 3
                 THEN [t |-> <<values[1], values[2], values[3]>>, diag |-> <<>>]
                 ELSE [t |-> <<0, 0, 0>>, diag |-> <<>>]

\* The closure over `_t` (lines 115-123).  [t, diag]: the translation and the
\* diagnostics it logged.
translation_from(d) ==
    LET got == get(d, "_t")
    IN  IF got = None THEN [t |-> <<0, 0, 0>>, diag |-> <<>>]
        ELSE LET values == parsed_values(split(got[1]))
             IN  IF Len(values) = 3
                 THEN [t |-> <<values[1], values[2], values[3]>>, diag |-> <<>>]
                 ELSE [t |-> <<0, 0, 0>>, diag |-> <<DiagTranslation>>]

rows == Identity3

\* rows[i as usize]: Some(row), or None where the index is out of bounds (a panic).
row_at(i) == IF i < Len(rows) THEN Some(rows[i + 1]) ELSE None

scale_i8(v, k) == <<wrap_i8(v[1] * k), wrap_i8(v[2] * k), wrap_i8(v[3] * k)>>

\* The guard `n & 3 != 3 && n >> 2 != 3` (line 142).
accepts(n) == bit_and(n, 3) # 3 /\ shr(n, 2) # 3

\* The signs of the three rows, bits 4, 5 and 6 (lines 132-136).
signs(n) ==
    <<IF bit_and(shr(n, 4), 1) = 0 THEN 1 ELSE -1,
      IF bit_and(shr(n, 5), 1) = 0 THEN 1 ELSE -1,
      IF bit_and(shr(n, 6), 1) = 0 THEN 1 ELSE -1>>

\* The closure over the byte n of `_r` (lines 131-155).  status is "some" (a
\* matrix was decoded), "none" (rejected, with a diagnostic) or "panic" (an
\* index of `rows` was out of bounds).
rotation_from_byte(n) ==
    IF accepts(n)
    THEN LET r1 == row_at(bit_and(n, 3))
             r2 == row_at(bit_and(shr(n, 2), 3))
             r3 == row_at(bit_and(bit_not(bit_or(n, shr(n, 2))), 3))
         IN  IF r1 = None \/ r2 = None \/ r3 = None
             THEN [status |-> "panic", diag |-> <<>>]
             ELSE [status |-> "some", diag |-> <<>>,
                   r |-> <<scale_i8(r1[1], signs(n)[1]),
                           scale_i8(r2[1], signs(n)[2]),
                           scale_i8(r3[1], signs(n)[3])>>]
    ELSE [status |-> "none", diag |-> <<DiagRotation>>]

\* The closure over `_r` (lines 130-156).
rotation_from(d) ==
    LET got == get(d, "_r")
    IN  IF got = None THEN [status |-> "none", diag |-> <<>>]
        ELSE LET n == parse_u8(got[1])
             IN  IF n = None THEN [status |-> "none", diag |-> <<>>]
                 ELSE rotation_from_byte(n[1])

\* Transform::from_dict(dict).  status "ok" with the Transform in value, or
\* "panic"; diag lists the diagnostics logged, in order.
from_dict(d) ==
    LET tr == translation_from(d)
        ro == rotation_from(d)
    IN  IF ro.status = "panic"
        THEN [status |-> "panic", diag |-> tr.diag]
        ELSE [status |-> "ok",
              value |-> MkTransform(tr.t, IF ro.status = "some" THEN ro.r ELSE Identity3),
              diag |-> tr.diag \o ro.diag]

(***************************************************************************)
(* Bounds of the inputs                                                    *)
(***************************************************************************)
\* `_r` holds the decimal numerals of 0 .. U8Max + MaxOver, and some others.
MaxOver == 1
\* `_t` holds at most MaxTokens pieces joined by single spaces.
MaxTokens == 4
\* The sampled rotations are the signed permutation matrices with at most
\* MaxNeg negative rows, and two matrices that are no permutations.
MaxNeg == 1
\* The scene graphs hold nodes of the ids 0 .. MaxId.
MaxId == 5
\* A Group lists at most MaxChildren children.
MaxChildren == 2

(***************************************************************************)
(* Specification SpecDict: Transform::from_dict on one frame dictionary    *)
(***************************************************************************)
\* The decimal numeral of n, as Rust's to_string writes it.
RECURSIVE DecStr(_)
DecStr(n) ==
    IF n < 10 THEN <<DigitChars[n + 1]>>
    ELSE DecStr(n \div 10) \o <<DigitChars[(n % 10) + 1]>>

RECURSIVE Join(_)
Join(pieces) ==
    IF Len(pieces) = 0 THEN <<>>
    ELSE IF Len(pieces) = 1 THEN pieces[1]
    ELSE pieces[1] \o <<" ">> \o Join(Tail(pieces))

TTokens == {<<"1">>, <<"-", "2">>, <<"x">>}

\* Values with an empty piece: two spaces in a row, or a leading space.
TGapped ==
    {Join(<<a, <<>>, b, c>>) : a \in TTokens, b \in TTokens, c \in TTokens}
        \cup {Join(<<<<>>, a>>) : a \in TTokens}

TStrings ==
    {Join(ps) : ps \in UNION {[1..k -> TTokens] : k \in 0..MaxTokens}} \cup TGapped

RStrings ==
    {DecStr(n) : n \in 0..(U8Max + MaxOver)}
        \cup {<<>>, <<"x">>, <<"-", "1">>, <<"+", "4">>, <<"0", "4">>}

\* The dictionary holding `_t` and `_r` where the option is Some.
MkDict(tv, rv) ==
    [k \in ({"_t" : x \in {1} \cap {Len(tv)}} \cup {"_r" : x \in {1} \cap {Len(rv)}})
        |-> IF k = "_t" THEN tv[1] ELSE rv[1]]

Dicts == {MkDict(tv, rv) : tv \in {None} \cup {Some(x) : x \in TStrings},
                           rv \in {None} \cup {Some(x) : x \in RStrings}}

EmptyDict == MkDict(None, None)

InitDict ==
    /\ dict \in Dicts
    /\ parsed = None
    /\ ta = default /\ tb = default /\ tc = default /\ composed = None
    /\ graph = <<>> /\ scene = None

FromDict ==
    /\ parsed = None
    /\ parsed' = Some(from_dict(dict))
    /\ UNCHANGED <<dict, ta, tb, tc, composed, graph, scene>>

NextDict == FromDict

SpecDict == InitDict /\ [][NextDict]_vars

(***************************************************************************)
(* Claims about Transform::from_dict, under SpecDict                       *)
(***************************************************************************)
\* m is a signed permutation matrix: every row and every column holds exactly
\* one nonzero entry, and that entry is 1 or -1.
IsSignedPermutation(m) ==
    /\ \A i \in 1..3 : \A j \in 1..3 : m[i][j] \in {-1, 0, 1}
    /\ \A i \in 1..3 : Cardinality({j \in 1..3 : m[i][j] # 0}) = 1
    /\ \A j \in 1..3 : Cardinality({i \in 1..3 : m[i][j] # 0}) = 1

\* `_r` holds the decimal numeral of the byte n.
RIsByte(n) == "_r" \in DOMAIN dict /\ dict["_r"] = DecStr(n)

\* C3: for every byte n given as `_r` whose bits 0-1 equal 3 or whose bits 2-3
\* equal 3, from_dict returns (no panic) a transform whose r is the identity.
C3_ReservedIndexGivesIdentity ==
    \A n \in 0..U8Max :
        (parsed # None /\ RIsByte(n) /\ (n % 4 = 3 \/ (n \div 4) % 4 = 3))
            => (parsed[1].status = "ok" /\ parsed[1].value.r = Identity3)

\* C4: for every byte n given as `_r`, from_dict returns (no panic) a transform
\* whose r is a signed permutation matrix.
C4_RotationIsSignedPermutation ==
    \A n \in 0..U8Max :
        (parsed # None /\ RIsByte(n))
            => (parsed[1].status = "ok" /\ IsSignedPermutation(parsed[1].value.r))

HasDiag(d) == \E i \in 1..Len(parsed[1].diag) : parsed[1].diag[i] = d

TMissing == "_t" \notin DOMAIN dict
TUnparsable == "_t" \in DOMAIN dict /\ Len(parsed_values(split(dict["_t"]))) # 3
RMissing == "_r" \notin DOMAIN dict
RUnparsable == "_r" \in DOMAIN dict /\ parse_u8(dict["_r"]) = None
\* `_r` parses to a byte that the guard of line 142 turns down.
RRejected ==
    /\ "_r" \in DOMAIN dict
    /\ parse_u8(dict["_r"]) # None
    /\ LET n == parse_u8(dict["_r"])[1] IN n % 4 = 3 \/ n \div 4 = 3

RowOrders == {p \in [1..3 -> 1..3] : {p[1], p[2], p[3]} = 1..3}

SignVectors ==
    {s \in [1..3 -> {-1, 1}] : Cardinality({i \in 1..3 : s[i] = -1}) <= MaxNeg}

\* Row i is the unit row p[i] with the sign s[i].
SignedPermutation(p, s) ==
    <<scale_i8(rows[p[1]], s[1]), scale_i8(rows[p[2]], s[2]), scale_i8(rows[p[3]], s[3])>>

\* Two matrices with entries in {-1, 0, 1} that are no permutations; the first
\* is what from_dict returns for `_r` = 5.
OtherMatrices ==
    {<<<<0, 1, 0>>, <<0, 1, 0>>, <<0, 0, 1>>>>,
     <<<<1, -1, 0>>, <<0, 1, 1>>, <<-1, 0, 1>>>>}

SampleRotations ==
    {SignedPermutation(p, s) : p \in RowOrders, s \in SignVectors} \cup OtherMatrices

\* The sampled transforms with a translation of ts.
SampleTransforms(ts) == {MkTransform(t, r) : t \in ts, r \in SampleRotations}

InitApply ==
    /\ ta \in SampleTransforms({<<0, 0, 0>>, <<1, -2, 3>>})
    /\ tb \in SampleTransforms({<<0, 4, -1>>})
    /\ tc \in SampleTransforms({<<2, 0, 5>>})
    /\ composed = None
    /\ dict = EmptyDict /\ parsed = None
    /\ graph = <<>> /\ scene = None

\* ab = ta.apply(tb), left = ta.apply(tb).apply(tc), right = ta.apply(tb.apply(tc)).
Compose ==
    /\ composed = None
    /\ LET ab == apply(ta, tb)
       IN  composed' = Some([ab |-> ab,
                             left |-> apply(ab, tc),
                             right |-> apply(ta, apply(tb, tc))])
    /\ UNCHANGED <<dict, parsed, ta, tb, tc, graph, scene>>

NextApply == Compose

SpecApply == InitApply /\ [][NextApply]_vars

(***************************************************************************)
(* Claims about Transform::apply, under SpecApply                          *)
(***************************************************************************)
\* The product of the 3x3 matrices a and b.
MatMul(a, b) ==
    [i \in 1..3 |-> [j \in 1..3 |-> a[i][1] * b[1][j] + a[i][2] * b[2][j] + a[i][3] * b[3][j]]]

\* C2 as stated: the rotation of self.apply(other) is the product
\* self.r * other.r (row i of self.r right-multiplied by other.r).
C2_RotationIsSelfTimesOther ==
    composed # None => composed[1].ab.r = MatMul(ta.r, tb.r)

\* C2 as amended: the rotation of self.apply(other) is the product
\* other.r * self.r (row i of other.r right-multiplied by self.r).
C2_RotationIsOtherTimesSelf ==
    composed # None => composed[1].ab.r = MatMul(tb.r, ta.r)

\* C2's case is reached: apply has composed two rotations that do not commute.
C2_Witness ==
    /\ composed # None
    /\ MatMul(ta.r, tb.r) # MatMul(tb.r, ta.r)
    /\ composed[1].ab.r = MatMul(tb.r, ta.r)

\* C5: for transforms whose rotations are signed permutation matrices,
\* apply(apply(A, B), C) = apply(A, apply(B, C)), translation and rotation.
C5_ApplyIsAssociative ==
    (/\ composed # None
     /\ IsSignedPermutation(ta.r) /\ IsSignedPermutation(tb.r) /\ IsSignedPermutation(tc.r))
        => (/\ composed[1].left.t = composed[1].right.t
            /\ composed[1].left.r = composed[1].right.r)

\* C5's case is reached: three signed permutations, no two of which commute,
\* with three different nonzero translations, have been composed both ways.
C5_Witness ==
    /\ composed # None
    /\ IsSignedPermutation(ta.r) /\ IsSignedPermutation(tb.r) /\ IsSignedPermutation(tc.r)
    /\ MatMul(ta.r, tb.r) # MatMul(tb.r, ta.r)
    /\ MatMul(tb.r, tc.r) # MatMul(tc.r, tb.r)
    /\ ta.t # <<0, 0, 0>>
    /\ composed[1].left = composed[1].right
    /\ composed[1].left # composed[1].ab

(***************************************************************************)
(* Scene graph store and collapse                                          *)
(***************************************************************************)
\* enum NodeKind
Group(children_ids) == [kind |-> "Group", children_ids |-> children_ids]
Transform(child_id, transform) ==
    [kind |-> "Transform", child_id |-> child_id, transform |-> transform]
Shape(model_id) == [kind |-> "Shape", model_id |-> model_id]

\* struct Node
Node(id, kind) == [id |-> id, kind |-> kind]

\* SceneGraph::new()
new == <<>>

\* self.0.insert(node.id, node.kind): a node of the same id is replaced.
insert(g, node) ==
    [i \in DOMAIN g \cup {node.id} |-> IF i = node.id THEN node.kind ELSE g[i]]

\* The root looked up by collapse_to_vec.
RootId == 0

\* The recursion of collapse_transform is unbounded on a cyclic graph; the
\* model gives the stack StackLimit frames, past which the run overflows.
StackLimit == 8

DiagMissingNode == "Scene graph contains an id for a node which doesn't exist"
DiagNonTransformChild ==
    "Unknown scene graph format: non-Transform node found as Group node child"
DiagTransformChild ==
    "Unknown scene graph format: Transform node found as Transform node child"
DiagRoot == "Unknown scene graph format: node 0 is not a Transform node"

\* What one stretch of the traversal yields: the entries pushed (collapsed),
\* the diagnostics, and, as a record of the run, the arguments of every call
\* of collapse_transform made (calls), the deepest frame reached (depth) and
\* whether the stack overflowed.
Yield(collapsed, diag, calls, depth, overflow) ==
    [collapsed |-> collapsed, diag |-> diag, calls |-> calls,
     depth |-> depth, overflow |-> overflow]

\* a followed by b; an overflow in a ends the run there.
Then(a, b) ==
    IF a.overflow THEN a
    ELSE Yield(a.collapsed \o b.collapsed, a.diag \o b.diag, a.calls \o b.calls,
               IF a.depth >= b.depth THEN a.depth ELSE b.depth, b.overflow)

\* A plausible slip: the child's transform appended after the accumulated ones.
new_transforms_appended(transform, transforms) == transforms \o <<transform>>

\* new_transforms: vec![*transform] extended by the accumulated transforms.
new_transforms(transform, transforms) == <<transform>> \o transforms

\* A plausible slip: the Group's children walked from the last to the first.
next_child_reversed(children_ids, k) == children_ids[Len(children_ids) + 1 - k]

\* The k-th id that `for id in children_ids` yields.
next_child(children_ids, k) == children_ids[k]

RECURSIVE collapse_transform(_, _, _, _)
RECURSIVE collapse_children(_, _, _, _, _)

\* A plausible slip: a child id that is missing from the graph ends the loop
\* over the Group's children (a `break` after the debug! line).
collapse_children_break(g, children_ids, k, transforms, depth) ==
    IF k > Len(children_ids) THEN Yield(<<>>, <<>>, <<>>, depth, FALSE)
    ELSE LET id == next_child(children_ids, k)
             found == get(g, id)
         IN  IF found = None THEN Yield(<<>>, <<DiagMissingNode>>, <<>>, depth, FALSE)
             ELSE Then(IF found[1].kind = "Transform"
                       THEN collapse_transform(g, found[1].child_id,
                                               new_transforms(found[1].transform, transforms),
                                               depth + 1)
                       ELSE Yield(<<>>, <<DiagNonTransformChild>>, <<>>, depth, FALSE),
                       collapse_children(g, children_ids, k + 1, transforms, depth))

\* The loop `for id in children_ids` (lines 198-212), from its k-th round on.
collapse_children(g, children_ids, k, transforms, depth) ==
    IF k > Len(children_ids) THEN Yield(<<>>, <<>>, <<>>, depth, FALSE)
    ELSE LET id == next_child(children_ids, k)
             found == get(g, id)
         IN  Then(IF found = None
                  THEN Yield(<<>>, <<DiagMissingNode>>, <<>>, depth, FALSE)
                  ELSE IF found[1].kind = "Transform"
                  THEN collapse_transform(g, found[1].child_id,
                                          new_transforms(found[1].transform, transforms),
                                          depth + 1)
                  ELSE Yield(<<>>, <<DiagNonTransformChild>>, <<>>, depth, FALSE),
                  collapse_children(g, children_ids, k + 1, transforms, depth))

\* A plausible slip: a Transform met as the child of a Transform is followed
\* to its own child instead of being skipped.
transform_child_followed(g, child, transforms, depth) ==
    collapse_transform(g, g[child].child_id, transforms, depth + 1)

\* The arm `NodeKind::Transform { .. }` of line 215: a diagnostic, no entry.
transform_child(g, child, transforms, depth) ==
    Yield(<<>>, <<DiagTransformChild>>, <<>>, depth, FALSE)

\* SceneGraph::collapse_transform(&self, child, transforms), as the frame
\* number `depth` of the recursion.
collapse_transform(g, child, transforms, depth) ==
    LET call == Yield(<<>>, <<>>, <<[child |-> child, transforms |-> transforms]>>,
                      depth, depth > StackLimit)
    IN  IF call.overflow THEN call
        ELSE IF child \notin DOMAIN g
        THEN Then(call, Yield(<<>>, <<DiagMissingNode>>, <<>>, depth, FALSE))
        ELSE IF g[child].kind = "Group"
        THEN Then(call, collapse_children(g, g[child].children_ids, 1, transforms, depth))
        ELSE IF g[child].kind = "Shape"
        THEN Then(call, Yield(<<[transforms |-> transforms, id |-> g[child].model_id]>>,
                              <<>>, <<>>, depth, FALSE))
        ELSE Then(call, transform_child(g, child, transforms, depth))

\* transforms.iter().fold(acc, |transform, next| transform.apply(*next))
RECURSIVE fold(_, _)
fold(acc, transforms) ==
    IF Len(transforms) = 0 THEN acc
    ELSE fold(apply(acc, Head(transforms)), Tail(transforms))

\* SceneGraph::collapse_to_vec(self).  status "ok" with the entries, each a
\* [transform, id], or "overflow"; paths, calls and depth record the run of
\* collapse_transform.
collapse_to_vec(g) ==
    IF RootId \in DOMAIN g /\ g[RootId].kind = "Transform"
    THEN LET run == collapse_transform(g, g[RootId].child_id, <<g[RootId].transform>>, 1)
         IN  IF run.overflow
             THEN [status |-> "overflow", calls |-> run.calls, depth |-> run.depth]
             ELSE [status |-> "ok",
                   entries |-> [i \in 1..Len(run.collapsed) |->
                                   [transform |-> fold(default, run.collapsed[i].transforms),
                                    id |-> run.collapsed[i].id]],
                   paths |-> run.collapsed,
                   calls |-> run.calls,
                   depth |-> run.depth,
                   diag |-> run.diag]
    ELSE [status |-> "ok", entries |-> <<>>, paths |-> <<>>, calls |-> <<>>,
          depth |-> 0, diag |-> <<DiagRoot>>]

\* parse_transform_node: the node of a Transform chunk with this id, child id
\* and frame dictionary (a dictionary on which from_dict does not panic).
parse_transform_node(id, child_id, transform_dict) ==
    Node(id, Transform(child_id, from_dict(transform_dict).value))

\* SceneGraph::add_node(&mut self, node), before the graph is collapsed.
add_node(node) ==
    /\ scene = None
    /\ graph' = insert(graph, node)
    /\ UNCHANGED <<dict, parsed, ta, tb, tc, composed, scene>>

\* SceneGraph::collapse_to_vec(self): the graph is consumed.
CollapseToVec ==
    /\ scene = None
    /\ scene' = Some(collapse_to_vec(graph))
    /\ UNCHANGED <<dict, parsed, ta, tb, tc, composed, graph>>

(***************************************************************************)
(* Specification SpecChain: the graphs built from the nodes of the chain   *)
(* 0 Transform -> 1 Group -> 2 Transform -> 3 Shape, or, with a Group as   *)
(* node 3, of the chain that goes on 3 Group -> 4 Transform -> 5 Shape.    *)
(***************************************************************************)
InnerTransforms ==
    {MkTransform(<<0, 0, 3>>, Identity3),
     MkTransform(<<0, 0, 3>>, <<<<0, -1, 0>>, <<1, 0, 0>>, <<0, 0, 1>>>>)}

ChainNodes ==
    {Node(0, Transform(1, t)) : t \in SampleTransforms({<<1, 0, 0>>})}
        \cup {Node(1, Group(<<2>>))}
        \cup {Node(2, Transform(3, t)) : t \in SampleTransforms({<<0, 2, 0>>})}
        \cup {Node(3, Shape(5)), Node(3, Group(<<4>>))}
        \cup {Node(4, Transform(5, t)) : t \in InnerTransforms}
        \cup {Node(5, Shape(6))}

InitGraph ==
    /\ graph = new /\ scene = None
    /\ dict = EmptyDict /\ parsed = None
    /\ ta = default /\ tb = default /\ tc = default /\ composed = None

NextChain ==
    \/ \E node \in ChainNodes : add_node(node)
    \/ CollapseToVec

SpecChain == InitGraph /\ [][NextChain]_vars

(***************************************************************************)
(* Specification SpecGraph: graphs over the ids 0 .. MaxId, well formed or *)
(* not (dangling ids, nodes of the wrong kind, cycles).  Node 1 and node   *)
(* MaxId - 1 are Groups; any other id may hold a Shape or a Transform, the *)
(* Transform of an id parsed from a frame dictionary of its own.           *)
(***************************************************************************)
Ids == 0..MaxId

GroupIds == {1, MaxId - 1}

\* The child ids a Transform node is given: the Groups and the last id.
ChildTargets == GroupIds \cup {MaxId}

\* The ids a Group lists.
ChildIds == {2, 3}

\* The children of node 1: at most MaxChildren ids.
ChildSeqs == UNION {[1..k -> ChildIds] : k \in 0..MaxChildren}

\* The children of node MaxId - 1: at most one id.
ShortChildSeqs == UNION {[1..k -> ChildIds] : k \in 0..1}

\* Rotation bytes that from_dict decodes to signed permutation matrices.
RotationBytes == <<17, 2, 40, 6, 89, 4>>

\* The frame dictionary of the Transform chunk of node i:
\* `_t` = "<i+1> -<i+2> 0" and `_r` one of RotationBytes.
FrameDictOf(i) ==
    MkDict(Some(Join(<<DecStr(i + 1), <<"-">> \o DecStr(i + 2), DecStr(0)>>)),
           Some(DecStr(RotationBytes[(i % Len(RotationBytes)) + 1])))

ModelOf(i) == 10 + i

GraphNodes ==
    {parse_transform_node(i, c, FrameDictOf(i)) : i \in Ids \ GroupIds, c \in ChildTargets}
        \cup {Node(i, Shape(ModelOf(i))) : i \in Ids \ GroupIds}
        \cup {Node(1, Group(cs)) : cs \in ChildSeqs}
        \cup {Node(MaxId - 1, Group(cs)) : cs \in ShortChildSeqs}

NextGraph ==
    \/ \E node \in GraphNodes : add_node(node)
    \/ CollapseToVec

SpecGraph == InitGraph /\ [][NextGraph]_vars

(***************************************************************************)
(* Claims about the collapse of a chain, under SpecChain                   *)
(***************************************************************************)
\* The product of the 3x3 matrix m and the vector v.
MatVec(m, v) ==
    [i \in 1..3 |-> m[i][1] * v[1] + m[i][2] * v[2] + m[i][3] * v[3]]

\* The graph holds root Transform 0 -> Group 1 -> Transform 2 -> Shape 3.
IsShortChain ==
    /\ {0, 1, 2, 3} \subseteq DOMAIN graph
    /\ graph[0].kind = "Transform" /\ graph[0].child_id = 1
    /\ graph[1].kind = "Group" /\ graph[1].children_ids = <<2>>
    /\ graph[2].kind = "Transform" /\ graph[2].child_id = 3
    /\ graph[3].kind = "Shape"

\* C1: a graph root Transform (T1) -> Group -> Transform (T2) -> Shape (m)
\* collapses to the one entry (T2.apply(T1), m), that is rotation T1.r * T2.r
\* and translation T1.r * T2.t + T1.t; with T1.t = [1,0,0], T2.t = [0,2,0],
\* identity rotations and m = 5 the entry is (t = [1,2,0], r = identity, 5).
C1_ChainCollapsesToInnerThenRoot ==
    (scene # None /\ IsShortChain) =>
        LET t1 == graph[0].transform
            t2 == graph[2].transform
        IN  /\ scene[1].status = "ok"
            /\ scene[1].entries =
                   <<[transform |-> apply(t2, t1), id |-> graph[3].model_id]>>
            /\ scene[1].entries[1].transform.r = MatMul(t1.r, t2.r)
            /\ scene[1].entries[1].transform.t =
                   [i \in 1..3 |-> MatVec(t1.r, t2.t)[i] + t1.t[i]]
            /\ (/\ t1 = MkTransform(<<1, 0, 0>>, Identity3)
                /\ t2 = MkTransform(<<0, 2, 0>>, Identity3)
                /\ graph[3].model_id = 5)
                   => scene[1].entries =
                          <<[transform |-> MkTransform(<<1, 2, 0>>, Identity3), id |-> 5]>>

\* C1's case is reached: a chain whose two transforms do not commute under
\* apply has been collapsed to its one entry.
C1_Witness ==
    /\ scene # None /\ IsShortChain
    /\ apply(graph[2].transform, graph[0].transform)
           # apply(graph[0].transform, graph[2].transform)
    /\ Len(scene[1].entries) = 1
    /\ scene[1].entries[1].transform = apply(graph[2].transform, graph[0].transform)

\* The k-th Transform on the way from the root down the chain: node 0, 2, 4.
ChainTransform(k) == graph[2 * (k - 1)].transform

\* p lists the chain's transforms from the root down.
RootFirst(p) == \A k \in 1..Len(p) : p[k] = ChainTransform(k)

\* p lists the chain's transforms from the node up to the root.
LeafFirst(p) == \A k \in 1..Len(p) : p[k] = ChainTransform(Len(p) + 1 - k)

\* C9 as stated: every path passed to a call of collapse_transform, and every
\* path emitted with a Shape, is in root-to-leaf order (the root's transform
\* first, the Transform nearest the leaf last).
C9_PathsAreRootFirst ==
    scene # None =>
        /\ \A i \in 1..Len(scene[1].calls) : RootFirst(scene[1].calls[i].transforms)
        /\ \A i \in 1..Len(scene[1].paths) : RootFirst(scene[1].paths[i].transforms)

\* C9 as amended: every such path is in leaf-to-root order (the Transform
\* nearest the node first, the root's transform last).
C9_PathsAreLeafFirst ==
    scene # None =>
        /\ \A i \in 1..Len(scene[1].calls) : LeafFirst(scene[1].calls[i].transforms)
        /\ \A i \in 1..Len(scene[1].paths) : LeafFirst(scene[1].paths[i].transforms)

\* C9's case is reached: a Shape was emitted with a path of three transforms,
\* the innermost first and the root's last.
C9_Witness ==
    /\ scene # None
    /\ {0, 2, 4} \subseteq DOMAIN graph
    /\ Len(scene[1].paths) = 1
    /\ scene[1].paths[1].transforms =
           <<graph[4].transform, graph[2].transform, graph[0].transform>>
    /\ Len(scene[1].calls) = 3

(***************************************************************************)
(* Claims about the collapse of any graph, under SpecGraph                 *)
(***************************************************************************)
RootIsTransform == RootId \in DOMAIN graph /\ graph[RootId].kind = "Transform"

\* The root is a Transform whose child is a Group.
RootLeadsToGroup ==
    /\ RootIsTransform
    /\ graph[RootId].child_id \in DOMAIN graph
    /\ graph[graph[RootId].child_id].kind = "Group"

RootGroup == graph[graph[RootId].child_id]

\* No child of the root's Group leads to a further Group.
RootGroupIsFlat ==
    \A k \in 1..Len(RootGroup.children_ids) :
        LET id == RootGroup.children_ids[k]
        IN  (id \in DOMAIN graph /\ graph[id].kind = "Transform"
                 /\ graph[id].child_id \in DOMAIN graph)
                => graph[graph[id].child_id].kind # "Group"

\* The entries under the child `id` of a flat root Group: one entry where id
\* is a Transform over a Shape, none otherwise.
EntriesUnder(id) ==
    IF /\ id \in DOMAIN graph
       /\ graph[id].kind = "Transform"
       /\ graph[id].child_id \in DOMAIN graph
       /\ graph[graph[id].child_id].kind = "Shape"
    THEN <<[transform |-> apply(graph[id].transform, graph[RootId].transform),
            id |-> graph[graph[id].child_id].model_id]>>
    ELSE <<>>

RECURSIVE EntriesInOrder(_)
EntriesInOrder(children_ids) ==
    IF Len(children_ids) = 0 THEN <<>>
    ELSE EntriesUnder(Head(children_ids)) \o EntriesInOrder(Tail(children_ids))

\* What the call c = [child, transforms] of collapse_transform returns.
Collapsed(c) == collapse_transform(graph, c.child, c.transforms, 1).collapsed

\* What is produced under the k-th listed child of the Group entered by c.
ProducedUnder(c, k) ==
    LET id == graph[c.child].children_ids[k]
    IN  IF id \in DOMAIN graph /\ graph[id].kind = "Transform"
        THEN Collapsed([child |-> graph[id].child_id,
                        transforms |-> <<graph[id].transform>> \o c.transforms])
        ELSE <<>>

\* What is produced under the k-th listed child, then under the (k+1)-th, ...
RECURSIVE ProducedFrom(_, _)
ProducedFrom(c, k) ==
    IF k > Len(graph[c.child].children_ids) THEN <<>>
    ELSE ProducedUnder(c, k) \o ProducedFrom(c, k + 1)

\* The number of walks of at most `fuel` further frames from node n to a Shape.
RECURSIVE ShapeWalks(_, _)
RECURSIVE ShapeWalksFrom(_, _, _)
ShapeWalksFrom(children_ids, k, fuel) ==
    IF k > Len(children_ids) THEN 0
    ELSE (IF children_ids[k] \in DOMAIN graph /\ graph[children_ids[k]].kind = "Transform"
          THEN ShapeWalks(graph[children_ids[k]].child_id, fuel - 1)
          ELSE 0)
         + ShapeWalksFrom(children_ids, k + 1, fuel)

ShapeWalks(n, fuel) ==
    IF fuel = 0 \/ n \notin DOMAIN graph THEN 0
    ELSE IF graph[n].kind = "Shape" THEN 1
    ELSE IF graph[n].kind = "Group" THEN ShapeWalksFrom(graph[n].children_ids, 1, fuel)
    ELSE 0

\* C6: the entries of a collapse that returns are in pre-order: for every
\* Group entered, what is produced under its k-th listed child comes before
\* what is produced under its (k+1)-th, in the order of children_ids (not
\* sorted by id), and there is one entry for every walk from the root to a Shape.
C6_EntriesFollowChildrenOrder ==
    (scene # None /\ scene[1].status = "ok" /\ RootIsTransform) =>
        /\ \A i \in 1..Len(scene[1].calls) :
               LET c == scene[1].calls[i]
               IN  (c.child \in DOMAIN graph /\ graph[c.child].kind = "Group")
                       => Collapsed(c) = ProducedFrom(c, 1)
        /\ scene[1].paths = Collapsed(scene[1].calls[1])
        /\ Len(scene[1].entries) = Len(scene[1].paths)
        /\ Len(scene[1].entries) = ShapeWalks(graph[RootId].child_id, Cardinality(DOMAIN graph) + 1)
        /\ (RootLeadsToGroup /\ RootGroupIsFlat)
               => scene[1].entries = EntriesInOrder(RootGroup.children_ids)

\* C6's case is reached: the root's Group lists <<3, 2>>; 3 leads to a second
\* Group that lists 2, and 2 is over a Shape.  The entry under 3 (through the
\* second Group) comes before the different entry under 2.
C6_Witness ==
    /\ scene # None /\ scene[1].status = "ok" /\ RootLeadsToGroup
    /\ RootGroup.children_ids = <<3, 2>>
    /\ ~RootGroupIsFlat
    /\ Len(scene[1].entries) = 2
    /\ scene[1].entries[1].transform =
           apply(apply(graph[2].transform, graph[3].transform), graph[RootId].transform)
    /\ scene[1].entries[2].transform = apply(graph[2].transform, graph[RootId].transform)
    /\ scene[1].entries[1] # scene[1].entries[2]

IsDangling(id) == id \notin DOMAIN graph

HasDanglingChild ==
    \E i \in DOMAIN graph :
        /\ graph[i].kind = "Group"
        /\ \E k \in 1..Len(graph[i].children_ids) : IsDangling(graph[i].children_ids[k])

Present(id) == ~IsDangling(id)

\* The graph with the dangling ids removed from every children_ids.
Pruned ==
    [i \in DOMAIN graph |->
        IF graph[i].kind = "Group"
        THEN Group(SelectSeq(graph[i].children_ids, Present))
        ELSE graph[i]]

\* C7: where a Group lists an id that is absent from the graph, the collapse
\* gives what it gives for the graph with the dangling ids removed from the
\* Group's children_ids: the same outcome and the same entries in the same order.
C7_DanglingChildContributesNothing ==
    (scene # None /\ HasDanglingChild) =>
        /\ scene[1].status = collapse_to_vec(Pruned).status
        /\ scene[1].status = "ok" => scene[1].entries = collapse_to_vec(Pruned).entries

\* C7's case is reached: the Group lists a dangling id before a child over a
\* Shape, and the collapse returned the entry of that child.
C7_Witness ==
    /\ scene # None /\ scene[1].status = "ok" /\ RootLeadsToGroup
    /\ Len(RootGroup.children_ids) = 2
    /\ IsDangling(RootGroup.children_ids[1])
    /\ Len(scene[1].entries) = 1
    /\ scene[1].entries = EntriesUnder(RootGroup.children_ids[2])

\* The nodes the traversal enters from node n: the child_id of every
\* Transform that the Group n lists.
Step(n) ==
    IF n \in DOMAIN graph /\ graph[n].kind = "Group"
    THEN {graph[graph[n].children_ids[k]].child_id :
             k \in {j \in 1..Len(graph[n].children_ids) :
                       /\ graph[n].children_ids[j] \in DOMAIN graph
                       /\ graph[graph[n].children_ids[j]].kind = "Transform"}}
    ELSE {}

\* The nodes entered by the k-th frame of some run of the traversal.
RECURSIVE Level(_)
Level(k) ==
    IF k = 1 THEN (IF RootIsTransform THEN {graph[RootId].child_id} ELSE {})
    ELSE UNION {Step(n) : n \in Level(k - 1)}

\* Every id entered is one of Ids, so a walk of more frames than there are
\* ids passes some node twice: no cycle is reachable exactly if no walk is
\* that long.
NoReachableCycle == Level(Cardinality(Ids) + 1) = {}

\* The depth of the graph: the length of the longest walk of the traversal.
GraphDepth == Cardinality({k \in 1..Cardinality(Ids) : Level(k) # {}})

\* C10: on a graph in which no cycle is reachable from node 0, built by any
\* sequence of add_node calls (dangling ids and nodes of the wrong kind
\* included), collapse_to_vec returns, and its recursion is no deeper than the
\* graph.
C10_AcyclicCollapseReturns ==
    (scene # None /\ NoReachableCycle) =>
        /\ scene[1].status = "ok"
        /\ scene[1].depth <= GraphDepth

\* C10's case is reached: an acyclic graph of two nested Groups whose last
\* Transform is over a node of the wrong kind was collapsed, three frames deep.
C10_Witness ==
    /\ scene # None /\ NoReachableCycle
    /\ scene[1].status = "ok"
    /\ scene[1].depth = 3 /\ GraphDepth = 3
    /\ \E i \in 1..Len(scene[1].diag) : scene[1].diag[i] = DiagTransformChild

=============================================================================
